---- MODULE Spec2Model ----
(***************************************************************************)
(* Model of search_and_email.py: the daily job search pipeline             *)
(*   build_queries -> search_serpapi/extract_links_from_serp per query ->  *)
(*   filter_and_score -> final[:25] -> build_email_body -> send_email.     *)
(*                                                                         *)
(* Python str values are sequences of one-character strings, so that       *)
(* str.lower(), " ".join(...), f-string concatenation and the substring    *)
(* test `k in text` are computed character by character.  Python's None is *)
(* the value None below, which is no sequence of characters.               *)
(***************************************************************************)
EXTENDS Integers, Sequences, FiniteSets, TLC

VARIABLES
    SERPAPI_KEY, SMTP_USER, SMTP_PASS,  \* module-level configuration (os.getenv)
    locations, roles,                   \* module-level search settings
    pc,                                 \* position of the run
    queries, qi,                        \* main(): list of queries, index of the next one
    res,                                \* main(): outcome of the last search call
    issued,                             \* search requests sent to the provider so far
    all_links,                          \* main(): accumulator of extracted records
    final, body, subject,               \* main(): locals after the loop
    mail,                               \* arguments of the send_email call
    server,                             \* send_email(): state of the SMTP session
    smtp,                               \* call and outcome of the last SMTP call
    sendCalls,                          \* number of calls of send_email
    exc,                                \* exception that escaped main(), or "none"
    stdout,                             \* kinds of lines printed so far
    items, filtered, dedup, twice       \* filter_and_score(): argument, locals, results

cfg  == <<SERPAPI_KEY, SMTP_USER, SMTP_PASS, locations, roles>>
run  == <<pc, queries, qi, res, issued, all_links, final, body, subject,
          mail, server, smtp, sendCalls, exc, stdout>>
fil  == <<items, filtered, dedup, twice>>
vars == <<SERPAPI_KEY, SMTP_USER, SMTP_PASS, locations, roles,
          pc, queries, qi, res, issued, all_links, final, body, subject,
          mail, server, smtp, sendCalls, exc, stdout,
          items, filtered, dedup, twice>>

-----------------------------------------------------------------------------
(* Bounds of the model *)

MaxLocations == 2     \* longest locations list tried by build_queries
MaxRoles == 2         \* longest roles list tried by build_queries
MaxItems == 3         \* longest argument of filter_and_score
MaxLinks == 2         \* most records accumulated in all_links by one run
MaxRecords == 30      \* most records handed to the tail of main()

-----------------------------------------------------------------------------
(* Python values *)

None == <<"None">>

\* bool(x) of an Optional[str]: None and "" are falsy
Truthy(x) == x # None /\ x # <<>>

Min(a, b) == IF a <= b THEN a ELSE b

Range(s) == {s[i] : i \in 1..Len(s)}

LowerChar(c) ==
    CASE c = "A" -> "a" [] c = "B" -> "b" [] c = "C" -> "c" [] c = "D" -> "d"
      [] c = "E" -> "e" [] c = "F" -> "f" [] c = "G" -> "g" [] c = "H" -> "h"
      [] c = "I" -> "i" [] c = "J" -> "j" [] c = "K" -> "k" [] c = "L" -> "l"
      [] c = "M" -> "m" [] c = "N" -> "n" [] c = "O" -> "o" [] c = "P" -> "p"
      [] c = "Q" -> "q" [] c = "R" -> "r" [] c = "S" -> "s" [] c = "T" -> "t"
      [] c = "U" -> "u" [] c = "V" -> "v" [] c = "W" -> "w" [] c = "X" -> "x"
      [] c = "Y" -> "y" [] c = "Z" -> "z" [] OTHER -> c

\* str.lower()
lower(s) == [i \in 1..Len(s) |-> LowerChar(s[i])]

\* the substring test `sub in s`
Contains(s, sub) ==
    \E i \in 0..(Len(s) - Len(sub)) : SubSeq(s, i + 1, i + Len(sub)) = sub

-----------------------------------------------------------------------------
(* Search settings, lines 22-28 *)

ALL_LOCATIONS == << <<"B", "a", "n", "g", "a", "l", "o", "r", "e">>, <<"B", "e", "n", "g", "a", "l", "u", "r", "u">>, <<"H", "y", "d", "e", "r", "a", "b", "a", "d">>, <<"P", "u", "n", "e">> >>

ALL_ROLES == << <<"D", "e", "v", "O", "p", "s", " ", "E", "n", "g", "i", "n", "e", "e", "r">>, <<"C", "l", "o", "u", "d", " ", "E", "n", "g", "i", "n", "e", "e", "r">>, <<"D", "e", "v", "O", "p", "s">>,
                <<"S", "i", "t", "e", " ", "R", "e", "l", "i", "a", "b", "i", "l", "i", "t", "y", " ", "E", "n", "g", "i", "n", "e", "e", "r">>, <<"S", "R", "E">> >>

experience_keywords ==
    << <<"e", "n", "t", "r", "y", " ", "l", "e", "v", "e", "l">>, <<"0", " ", "y", "e", "a", "r", "s">>, <<"0", "-", "1">>, <<"0", " ", "t", "o", " ", "1">>, <<"f", "r", "e", "s", "h", "e", "r">>,
       <<"0", "-", "1", " ", "y", "e", "a", "r", "s">>, <<"f", "r", "e", "s", "h", "e", "r">>, <<"g", "r", "a", "d", "u", "a", "t", "e">>, <<"n", "e", "w", " ", "g", "r", "a", "d">> >>

MAX_RESULTS_PER_QUERY == 10

TOP_MATCHES == 25

-----------------------------------------------------------------------------
(* build_queries, lines 30-39 *)

startup_query(role, loc) == role \o <<" ", "s", "t", "a", "r", "t", "u", "p", " ", "e", "n", "t", "r", "y", " ", "l", "e", "v", "e", "l", " ">> \o loc

plain_query(role, loc) == role \o <<" ", "e", "n", "t", "r", "y", " ", "l", "e", "v", "e", "l", " ">> \o loc

\* the inner loop `for role in roles` for one loc
RECURSIVE role_loop(_, _)
role_loop(loc, rs) ==
    IF rs = <<>> THEN <<>>
    ELSE <<startup_query(Head(rs), loc), plain_query(Head(rs), loc)>>
         \o role_loop(loc, Tail(rs))

\* the outer loop `for loc in locations`
RECURSIVE loc_loop(_, _)
loc_loop(ls, rs) ==
    IF ls = <<>> THEN <<>>
    ELSE role_loop(Head(ls), rs) \o loc_loop(Tail(ls), rs)

\* the loops nested the other way round: for role in roles: for loc in locations
RECURSIVE role_major_loop(_, _)
role_major_loop(ls, rs) ==
    IF rs = <<>> THEN <<>>
    ELSE [k \in 1..(2 * Len(ls)) |->
            IF k % 2 = 1 THEN startup_query(Head(rs), ls[(k + 1) \div 2])
                         ELSE plain_query(Head(rs), ls[k \div 2])]
         \o role_major_loop(ls, Tail(rs))

build_queries_role_major(ls, rs) == role_major_loop(ls, rs)

build_queries(ls, rs) == loc_loop(ls, rs)

-----------------------------------------------------------------------------
(* filter_and_score, lines 65-85 *)

\* " ".join(filter(None, [title, snippet])).lower(), line 68
item_text(it) ==
    lower(IF Truthy(it.title) /\ Truthy(it.snippet)
            THEN it.title \o <<" ">> \o it.snippet
          ELSE IF Truthy(it.title) THEN it.title
          ELSE IF Truthy(it.snippet) THEN it.snippet
          ELSE <<>>)

\* any(k in text for k in kws)
any_in(kws, text) == \E i \in 1..Len(kws) : Contains(text, kws[i])

\* any(k.lower() in text for k in kws)
any_lower_in(kws, text) == \E i \in 1..Len(kws) : Contains(text, lower(kws[i]))

\* the nested ifs of lines 70-77 with the else branch of line 75 missing
appended_location_gated(it) ==
    LET text == item_text(it) IN
    IF any_in(experience_keywords, text) \/ Contains(text, <<"e", "n", "t", "r", "y">>)
                                          \/ Contains(text, <<"f", "r", "e", "s", "h", "e", "r">>)
      THEN IF any_lower_in(roles, text)
             THEN IF any_lower_in(locations, text) THEN TRUE ELSE FALSE
             ELSE FALSE
      ELSE FALSE

\* lines 68-77: is the record appended to `filtered`
appended(it) ==
    LET text == item_text(it) IN
    IF any_in(experience_keywords, text) \/ Contains(text, <<"e", "n", "t", "r", "y">>)
                                          \/ Contains(text, <<"f", "r", "e", "s", "h", "e", "r">>)
      THEN IF any_lower_in(roles, text)
             THEN IF any_lower_in(locations, text) THEN TRUE ELSE TRUE
             ELSE FALSE
      ELSE FALSE

\* the first loop, lines 66-77
keyword_stage(xs) == SelectSeq(xs, appended)

\* the second loop, lines 79-84
RECURSIVE dedupe_loop(_, _, _)
dedupe_loop(fs, seen, acc) ==
    IF fs = <<>> THEN acc
    ELSE IF Head(fs).link \notin seen
           THEN dedupe_loop(Tail(fs), seen \cup {Head(fs).link}, Append(acc, Head(fs)))
           ELSE dedupe_loop(Tail(fs), seen, acc)

\* dedupe through a dict keyed by link: first-seen position, last-seen record
dedupe_last_wins(fs) ==
    LET firsts == dedupe_loop(fs, {}, <<>>)
        last(l) == CHOOSE i \in 1..Len(fs) :
                      /\ fs[i].link = l
                      /\ \A j \in (i + 1)..Len(fs) : fs[j].link # l
    IN  [k \in 1..Len(firsts) |-> fs[last(firsts[k].link)]]

dedupe(fs) == dedupe_loop(fs, {}, <<>>)

\* the second loop running over range(len(filtered) - 1)
filter_and_score_short(xs) ==
    LET fs == keyword_stage(xs) IN dedupe(SubSeq(fs, 1, Len(fs) - 1))

filter_and_score(xs) == dedupe(keyword_stage(xs))

-----------------------------------------------------------------------------
(* Idle values of the variables a specification does not use *)

NoResult == [error |-> FALSE, has_organic |-> FALSE, organic |-> <<>>]

NoCall == [call |-> "none", outcome |-> "ok"]

NoBody == [kind |-> "unset", now |-> "unset", entries |-> <<>>]

NoSubject == [matches |-> -1]

NoMail == [subject |-> NoSubject, body |-> NoBody]

IdleRun ==
    /\ queries = <<>> /\ qi = 0 /\ res = NoResult
    /\ issued = <<>> /\ all_links = <<>> /\ final = <<>>
    /\ body = NoBody /\ subject = NoSubject /\ mail = NoMail
    /\ server = "none" /\ smtp = NoCall /\ sendCalls = 0
    /\ exc = "none" /\ stdout = {}

IdleFilter ==
    /\ items = <<>> /\ filtered = <<>> /\ dedup = <<>> /\ twice = <<>>

IdleEnv ==
    /\ SERPAPI_KEY = <<"k", "e", "y">> /\ SMTP_USER = <<"u", "s", "e", "r">> /\ SMTP_PASS = <<"p", "a", "s", "s">>

\* all sequences over S of length at most n
SeqsUpTo(S, n) == UNION {[1..k -> S] : k \in 0..n}

-----------------------------------------------------------------------------
(* Specification of build_queries over short settings lists *)

QInit ==
    /\ IdleEnv /\ IdleFilter
    /\ locations \in SeqsUpTo(Range(ALL_LOCATIONS), MaxLocations)
    /\ roles \in SeqsUpTo(Range(ALL_ROLES), MaxRoles)
    /\ pc = "q_input" /\ IdleRun

QBuild ==
    /\ pc = "q_input"
    /\ queries' = build_queries(locations, roles)
    /\ pc' = "q_built"
    /\ UNCHANGED <<cfg, fil, qi, res, issued, all_links, final, body, subject,
                   mail, server, smtp, sendCalls, exc, stdout>>

QNext == QBuild

SpecQueries == QInit /\ [][QNext]_vars

-----------------------------------------------------------------------------
(* Specification of filter_and_score over short lists of records *)

Rec(l, t, s) == [link |-> l, title |-> t, snippet |-> s]

ItemPool ==
    { Rec(<<"a">>, <<"D", "e", "v", "O", "p", "s", " ", "F", "r", "e", "s", "h", "e", "r">>, None),
      Rec(<<"a">>, <<"d", "u", "p", "l", "i", "c", "a", "t", "e">>, <<>>),
      Rec(<<"a">>, None, <<"S", "R", "E", " ", "0", "-", "1", " ", "y", "e", "a", "r", "s">>),
      Rec(<<"b">>, <<"S", "e", "n", "i", "o", "r", " ", "D", "e", "v", "O", "p", "s", " ", "L", "e", "a", "d">>, <<"1", "0", " ", "y", "e", "a", "r", "s", " ", "e", "x", "p", "e", "r", "i", "e", "n", "c", "e">>),
      Rec(<<"b">>, <<"C", "l", "o", "u", "d">>, <<"E", "n", "g", "i", "n", "e", "e", "r", " ", "g", "r", "a", "d", "u", "a", "t", "e", " ", "P", "u", "n", "e">>),
      Rec(<<"b">>, <<"E", "n", "t", "r", "y", " ", "l", "e", "v", "e", "l", " ", "j", "o", "b", "s">>, None),
      Rec(<<"c">>, <<"S", "e", "n", "i", "o", "r", " ", "D", "e", "v", "O", "p", "s", " ", "L", "e", "a", "d", " ", "P", "u", "n", "e">>, None),
      Rec(<<"c">>, <<"D", "e", "v", "O", "p", "s", " ", "F", "r", "e", "s", "h", "e", "r">>, <<>>) }

FInit ==
    /\ IdleEnv
    /\ locations = ALL_LOCATIONS /\ roles = ALL_ROLES
    /\ pc = "f_input" /\ IdleRun
    /\ items \in SeqsUpTo(ItemPool, MaxItems)
    /\ filtered = <<>> /\ dedup = <<>> /\ twice = <<>>

\* one call filter_and_score(items)
FilterOnce ==
    /\ pc = "f_input"
    /\ filtered' = keyword_stage(items)
    /\ dedup' = filter_and_score(items)
    /\ pc' = "f_once"
    /\ UNCHANGED <<cfg, items, twice, queries, qi, res, issued, all_links, final,
                   body, subject, mail, server, smtp, sendCalls, exc, stdout>>

\* a second call on the result of the first
FilterTwice ==
    /\ pc = "f_once"
    /\ twice' = filter_and_score(dedup)
    /\ pc' = "f_twice"
    /\ UNCHANGED <<cfg, items, filtered, dedup, queries, qi, res, issued, all_links,
                   final, body, subject, mail, server, smtp, sendCalls, exc, stdout>>

FNext == FilterOnce \/ FilterTwice

SpecFilter == FInit /\ [][FNext]_vars


-----------------------------------------------------------------------------
(* search_serpapi and extract_links_from_serp, lines 41-63 *)

\* the parameters of one search request, lines 42-49
request(q) == [engine |-> "google", q |-> q, hl |-> "en",
               api_key |-> SERPAPI_KEY, num |-> MAX_RESULTS_PER_QUERY]

\* line 61: `if link`
has_link(r) == Truthy(r.link)

\* lines 55-63; result.get("organic_results", []) is empty when the key is absent
extract_links_from_serp(result) ==
    SelectSeq(IF result.has_organic THEN result.organic ELSE <<>>, has_link)

\* results the provider returns in the runs explored
RawPool ==
    { Rec(<<"a">>, <<"D", "e", "v", "O", "p", "s", " ", "F", "r", "e", "s", "h", "e", "r">>, None),
      Rec(<<"b">>, <<"S", "e", "n", "i", "o", "r", " ", "D", "e", "v", "O", "p", "s", " ", "L", "e", "a", "d">>, None),
      Rec(None, <<"D", "e", "v", "O", "p", "s", " ", "F", "r", "e", "s", "h", "e", "r">>, None) }

\* what one call of search_serpapi does: raise, or return a result dict
SearchOutcomes ==
    { [error |-> TRUE, has_organic |-> FALSE, organic |-> <<>>],
      [error |-> FALSE, has_organic |-> FALSE, organic |-> <<>>] }
    \cup { [error |-> FALSE, has_organic |-> TRUE, organic |-> o] :
              o \in SeqsUpTo(RawPool, MaxLinks) }

\* the try body with `all_links = links` in place of all_links.extend(links)
accumulate_assign(acc, outcome) ==
    IF outcome.error THEN acc ELSE extract_links_from_serp(outcome)

\* the try/except of lines 118-124: the new value of all_links
accumulate(acc, outcome) ==
    IF outcome.error THEN acc ELSE acc \o extract_links_from_serp(outcome)

-----------------------------------------------------------------------------
(* build_email_body, lines 87-97 *)

\* datetime.now() formatted, line 88: one fixed reading of the clock
Now == "2026-01-01 09:00 IST"

\* line 96: one numbered entry
entry(i, r) ==
    [index |-> i,
     title |-> IF Truthy(r.title) THEN r.title ELSE <<"N", "o", " ", "t", "i", "t", "l", "e">>,
     snippet |-> IF Truthy(r.snippet) THEN r.snippet ELSE <<>>,
     link |-> r.link]

\* the function without the `if not results` case of lines 89-90
build_email_body_always_list(results) ==
    [kind |-> "results", now |-> Now,
     entries |-> [i \in 1..Len(results) |-> entry(i, results[i])]]

build_email_body(results) ==
    IF results = <<>>
      THEN [kind |-> "no_matches", now |-> Now, entries |-> <<>>]
      ELSE [kind |-> "results", now |-> Now,
            entries |-> [i \in 1..Len(results) |-> entry(i, results[i])]]

-----------------------------------------------------------------------------
(* main, lines 112-131, and send_email, lines 99-110 *)

\* no check of the key at all
config_ok_unchecked == TRUE

\* line 113: `if not SERPAPI_KEY` is the only check of the configuration
config_ok == Truthy(SERPAPI_KEY)

\* final[-25:] in place of final[:25]
top_matches_last(xs) == SubSeq(xs, Len(xs) - Min(TOP_MATCHES, Len(xs)) + 1, Len(xs))

\* line 127: final[:25]
top_matches(xs) == SubSeq(xs, 1, Min(TOP_MATCHES, Len(xs)))

\* the call of line 130 wrapped in try/except that prints the error
raise_in_send_caught(e) ==
    /\ pc' = "done"
    /\ exc' = "none"
    /\ stdout' = stdout \cup {"Email error"}

\* an exception raised inside send_email: neither send_email nor main has a
\* handler, so it leaves main and line 131 is not reached
raise_in_send(e) ==
    /\ pc' = "crashed"
    /\ exc' = e
    /\ stdout' = stdout

\* os.getenv of a variable that is unset, set to "", or set to v
EnvValues(v) == {None, <<>>, v}

Init ==
    /\ SERPAPI_KEY \in EnvValues(<<"k", "e", "y">>)
    /\ SMTP_USER \in {None, <<"u", "s", "e", "r">>}
    /\ SMTP_PASS \in {None, <<"p", "a", "s", "s">>}
    /\ locations = ALL_LOCATIONS /\ roles = ALL_ROLES
    /\ pc = "main" /\ IdleRun /\ IdleFilter

\* lines 113-116
Main ==
    /\ pc = "main"
    /\ IF config_ok
         THEN /\ queries' = build_queries(locations, roles)
              /\ qi' = 1
              /\ pc' = IF queries' = <<>> THEN "prepare" ELSE "search"
              /\ exc' = exc
         ELSE /\ pc' = "exited"
              /\ exc' = "SystemExit"
              /\ UNCHANGED <<queries, qi>>
    /\ all_links' = <<>>
    /\ UNCHANGED <<cfg, fil, res, issued, final, body, subject, mail, server,
                   smtp, sendCalls, stdout>>

\* one iteration of the loop of lines 117-124
Search ==
    /\ pc = "search"
    /\ \E outcome \in SearchOutcomes :
         /\ Len(accumulate(all_links, outcome)) <= MaxLinks
         /\ issued' = Append(issued, request(queries[qi]))
         /\ res' = outcome
         /\ all_links' = accumulate(all_links, outcome)
         /\ stdout' = IF outcome.error THEN stdout \cup {"Search error"} ELSE stdout
    /\ qi' = qi + 1
    /\ pc' = IF qi = Len(queries) THEN "prepare" ELSE "search"
    /\ UNCHANGED <<cfg, fil, queries, final, body, subject, mail, server, smtp,
                   sendCalls, exc>>

\* lines 125-129
Prepare ==
    /\ pc = "prepare"
    /\ final' = top_matches(filter_and_score(all_links))
    /\ body' = build_email_body(final')
    /\ subject' = [matches |-> Len(final')]
    /\ pc' = "send"
    /\ UNCHANGED <<cfg, fil, queries, qi, res, issued, all_links, mail, server,
                   smtp, sendCalls, exc, stdout>>

\* line 130 and lines 100-103: formataddr raises AttributeError on a None address
SendEmail ==
    /\ pc = "send"
    /\ sendCalls' = sendCalls + 1
    /\ mail' = [subject |-> subject, body |-> body]
    /\ IF SMTP_USER = None
         THEN /\ smtp' = [call |-> "formataddr", outcome |-> "error"]
              /\ raise_in_send("AttributeError")
         ELSE /\ smtp' = [call |-> "formataddr", outcome |-> "ok"]
              /\ pc' = "connect"
              /\ UNCHANGED <<exc, stdout>>
    /\ UNCHANGED <<cfg, fil, queries, qi, res, issued, all_links, final, body,
                   subject, server>>

\* line 106: smtplib.SMTP(host, port) connects or raises
Connect ==
    /\ pc = "connect"
    /\ \E o \in {"ok", "error"} :
         /\ smtp' = [call |-> "connect", outcome |-> o]
         /\ IF o = "ok"
              THEN /\ server' = "open"
                   /\ pc' = "starttls"
                   /\ UNCHANGED <<exc, stdout>>
              ELSE /\ server' = server
                   /\ raise_in_send("OSError")
    /\ UNCHANGED <<cfg, fil, queries, qi, res, issued, all_links, final, body,
                   subject, mail, sendCalls>>

\* one SMTP command on the open session: it succeeds, the server refuses it
\* (the session stays open), or the connection drops (smtplib closes it)
SmtpCommand(call, allowed, next) ==
    /\ pc = call
    /\ \E o \in {"ok", "refused", "disconnected"} :
         /\ o = "ok" => allowed
         /\ smtp' = [call |-> call, outcome |-> o]
         /\ CASE o = "ok" ->
                   /\ pc' = next
                   /\ UNCHANGED <<server, exc, stdout>>
              [] o = "refused" ->
                   /\ server' = server
                   /\ raise_in_send("SMTPResponseException")
              [] o = "disconnected" ->
                   /\ server' = "closed"
                   /\ raise_in_send("SMTPServerDisconnected")
    /\ UNCHANGED <<cfg, fil, queries, qi, res, issued, all_links, final, body,
                   subject, mail, sendCalls>>

\* line 107
Starttls == SmtpCommand("starttls", TRUE, "login")

\* line 108: no login succeeds without a user name and a password
Login == SmtpCommand("login", Truthy(SMTP_USER) /\ Truthy(SMTP_PASS), "sendmail")

\* line 109
Sendmail == SmtpCommand("sendmail", TRUE, "quit")

\* line 110, then the return to main and line 131
Quit ==
    /\ pc = "quit"
    /\ \E o \in {"ok", "disconnected"} :
         /\ smtp' = [call |-> "quit", outcome |-> o]
         /\ server' = "closed"
         /\ IF o = "ok"
              THEN /\ pc' = "done"
                   /\ stdout' = stdout \cup {"Email sent"}
                   /\ exc' = exc
              ELSE raise_in_send("SMTPServerDisconnected")
    /\ UNCHANGED <<cfg, fil, queries, qi, res, issued, all_links, final, body,
                   subject, mail, sendCalls>>

Next ==
    \/ Main \/ Search \/ Prepare \/ SendEmail
    \/ Connect \/ Starttls \/ Login \/ Sendmail \/ Quit

Spec == Init /\ [][Next]_vars

-----------------------------------------------------------------------------
(* Specification of lines 125-131 from the end of the loop, over long lists *)

Digits == <<"0", "1", "2", "3", "4", "5", "6", "7", "8", "9">>

LinkName(k) == <<Digits[(k \div 10) + 1], Digits[(k % 10) + 1]>>

\* n records: links repeat with the given period, every miss-th record has no
\* experience keyword, every second record has no title
GenLinks(n, period, miss) ==
    [i \in 1..n |->
        IF miss > 0 /\ i % miss = 0
          THEN Rec(LinkName(i % period), <<"S", "e", "n", "i", "o", "r", " ", "D", "e", "v", "O", "p", "s", " ", "L", "e", "a", "d">>, None)
        ELSE IF i % 2 = 0
          THEN Rec(LinkName(i % period), None, <<"S", "R", "E", " ", "0", "-", "1", " ", "y", "e", "a", "r", "s">>)
          ELSE Rec(LinkName(i % period), <<"D", "e", "v", "O", "p", "s", " ", "F", "r", "e", "s", "h", "e", "r">>, <<>>)]

TInit ==
    /\ IdleEnv /\ IdleFilter
    /\ locations = ALL_LOCATIONS /\ roles = ALL_ROLES
    /\ pc = "prepare"
    /\ queries = build_queries(locations, roles)
    /\ qi = Len(queries) + 1
    /\ res = NoResult
    /\ issued = [k \in 1..Len(queries) |-> request(queries[k])]
    /\ \E n \in 0..MaxRecords, period \in {7, MaxRecords + 2}, miss \in {0, 4} :
          all_links = GenLinks(n, period, miss)
    /\ final = <<>> /\ body = NoBody /\ subject = NoSubject /\ mail = NoMail
    /\ server = "none" /\ smtp = NoCall /\ sendCalls = 0
    /\ exc = "none" /\ stdout = {}

TNext ==
    \/ Prepare \/ SendEmail
    \/ Connect \/ Starttls \/ Login \/ Sendmail \/ Quit

SpecTail == TInit /\ [][TNext]_vars

-----------------------------------------------------------------------------
(* Properties *)

Terminated == pc \in {"done", "crashed", "exited"}

InSendEmail == pc \in {"connect", "starttls", "login", "sendmail", "quit"}

AllRequests == [k \in 1..Len(queries) |-> request(queries[k])]

\* C1 as stated: a failure of the mail send is caught inside the run, no
\* exception escapes main and the run terminates normally.
C1_SendFailureCaught ==
    smtp.outcome # "ok" => (exc = "none" /\ pc # "crashed")

\* C1 amended: a failure of the mail send (building the message, connect,
\* starttls, login, sendmail or quit) is not caught: the exception escapes
\* main, the run ends with it and "Email sent" is never printed; the run ends
\* normally only after a quit that succeeded.
C1_SendFailureEscapes ==
    /\ smtp.outcome # "ok" =>
          /\ pc = "crashed"
          /\ exc \notin {"none", "SystemExit"}
          /\ "Email sent" \notin stdout
    /\ pc = "done" =>
          /\ smtp = [call |-> "quit", outcome |-> "ok"]
          /\ exc = "none"
          /\ "Email sent" \in stdout

C1_Witness ==
    /\ pc = "crashed"
    /\ smtp = [call |-> "login", outcome |-> "refused"]
    /\ Truthy(SMTP_USER) /\ Truthy(SMTP_PASS)

\* C2 as stated: when the API key, the mail user name or the mail password is
\* missing, the run aborts with the configuration error before any search
\* request is issued and before any mail session is opened.
C2_AnyMissingSettingAborts ==
    (SERPAPI_KEY = None \/ SMTP_USER = None \/ SMTP_PASS = None) =>
        /\ pc \in {"main", "exited"}
        /\ issued = <<>>
        /\ server = "none"
        /\ smtp = NoCall

\* C2 amended: when the API key is missing (unset or empty) the run aborts
\* with the configuration error before any network activity: no search request
\* is issued, send_email is not called and no mail session is opened.  With
\* the key present the run never takes the configuration exit, whatever the
\* mail user name and password are.
C2_MissingKeyAborts ==
    /\ ~Truthy(SERPAPI_KEY) =>
          /\ pc \in {"main", "exited"}
          /\ pc = "exited" => exc = "SystemExit"
          /\ issued = <<>>
          /\ sendCalls = 0
          /\ server = "none"
          /\ smtp = NoCall
    /\ Truthy(SERPAPI_KEY) => pc # "exited" /\ exc # "SystemExit"

C2_Witness ==
    /\ pc = "exited"
    /\ SERPAPI_KEY = None
    /\ Truthy(SMTP_USER) /\ Truthy(SMTP_PASS)

\* C3: every iteration of the search loop issues the next query of
\* build_queries, a failing search leaves the accumulated list as it was, a
\* search that returns appends its extracted records at the end, and no search
\* outcome ends the run: after the loop every query has been issued in order.
C3_SearchErrorsIsolated ==
    /\ [](pc \notin {"main", "search", "exited"} => issued = AllRequests)
    /\ [][pc = "search" =>
            /\ pc' \in {"search", "prepare"}
            /\ exc' = "none"
            /\ issued' = Append(issued, request(queries[qi]))
            /\ Len(issued') <= Len(queries)
            /\ all_links' = IF res'.error
                              THEN all_links
                              ELSE all_links \o SelectSeq(res'.organic, has_link)]_vars

C3_Witness ==
    /\ pc = "search"
    /\ "Search error" \in stdout
    /\ ~res.error
    /\ Len(all_links) >= 2
    /\ Len(SelectSeq(res.organic, has_link)) = 1

\* the keyword gate of C5, stated on the text of a record
HasExperienceWord(text) ==
    \E k \in Range(experience_keywords) \cup { <<"e", "n", "t", "r", "y">>, <<"f", "r", "e", "s", "h", "e", "r">> } :
        Contains(text, k)

HasRoleWord(text) == \E r \in Range(roles) : Contains(text, lower(r))

HasLocationWord(text) == \E l \in Range(locations) : Contains(text, lower(l))

PassesGate(it) ==
    HasExperienceWord(item_text(it)) /\ HasRoleWord(item_text(it))

NoDupLinks(s) == \A i, j \in 1..Len(s) : i # j => s[i].link # s[j].link

\* the earliest record of s with link l
FirstWithLink(s, l) ==
    s[CHOOSE i \in 1..Len(s) :
        /\ s[i].link = l
        /\ \A j \in 1..(i - 1) : s[j].link # l]

Links(s) == {s[i].link : i \in 1..Len(s)}

\* C4 as stated: the output of filter_and_score has no two records with the
\* same link, and the record kept for a link is the earliest input record
\* with that link.
C4_KeepsEarliestInput ==
    pc # "f_input" =>
        /\ NoDupLinks(dedup)
        /\ \A k \in 1..Len(dedup) : dedup[k] = FirstWithLink(items, dedup[k].link)

\* C4 amended: the output has no two records with the same link, and the
\* record kept for a link is the earliest input record with that link among
\* those that pass the keyword stage; every link of a passing record is kept.
C4_KeepsEarliestPassing ==
    pc # "f_input" =>
        /\ NoDupLinks(dedup)
        /\ Links(dedup) = Links(SelectSeq(items, PassesGate))
        /\ \A k \in 1..Len(dedup) :
              dedup[k] = FirstWithLink(SelectSeq(items, PassesGate), dedup[k].link)

C4_Witness ==
    /\ pc = "f_once"
    /\ \E i, j \in 1..Len(items) :
          /\ i < j
          /\ items[i].link = items[j].link
          /\ items[i] # items[j]
          /\ PassesGate(items[i]) /\ PassesGate(items[j])
    /\ \E i, j \in 1..Len(items) :
          /\ i < j
          /\ items[i].link = items[j].link
          /\ ~PassesGate(items[i]) /\ PassesGate(items[j])

C6_Idempotent == pc = "f_twice" => twice = dedup

C6_Witness ==
    /\ pc = "f_twice"
    /\ Len(dedup) >= 2
    /\ Len(dedup) < Len(items)

\* C7 as stated: 2*l*r queries, the pair of (role, location) at the place
\* given by role-major, location-minor order.
C7_RoleMajor ==
    pc = "q_built" =>
        LET l == Len(locations)
            r == Len(roles)
        IN  /\ Len(queries) = 2 * l * r
            /\ \A ri \in 1..r, li \in 1..l :
                  LET at == 2 * ((ri - 1) * l + (li - 1)) IN
                  /\ queries[at + 1] =
                        roles[ri] \o <<" ", "s", "t", "a", "r", "t", "u", "p", " ", "e", "n", "t", "r", "y", " ", "l", "e", "v", "e", "l", " ">> \o locations[li]
                  /\ queries[at + 2] =
                        roles[ri] \o <<" ", "e", "n", "t", "r", "y", " ", "l", "e", "v", "e", "l", " ">> \o locations[li]

\* C7 amended: 2*l*r queries, one consecutive pair (with "startup", then
\* without) per combination, in location-major, role-minor order: all pairs of
\* the first location over every role come before any pair of the second
\* location.
C7_LocationMajor ==
    pc = "q_built" =>
        LET l == Len(locations)
            r == Len(roles)
        IN  /\ Len(queries) = 2 * l * r
            /\ \A li \in 1..l, ri \in 1..r :
                  LET at == 2 * ((li - 1) * r + (ri - 1)) IN
                  /\ queries[at + 1] =
                        roles[ri] \o <<" ", "s", "t", "a", "r", "t", "u", "p", " ", "e", "n", "t", "r", "y", " ", "l", "e", "v", "e", "l", " ">> \o locations[li]
                  /\ queries[at + 2] =
                        roles[ri] \o <<" ", "e", "n", "t", "r", "y", " ", "l", "e", "v", "e", "l", " ">> \o locations[li]

C7_Witness ==
    /\ pc = "q_built"
    /\ Len(locations) = 2 /\ locations[1] # locations[2]
    /\ Len(roles) = 2 /\ roles[1] # roles[2]

\* C8: after filtering, the formatter gets the first min(25, n) records of the
\* n records of the filter output, in order, numbers them 1..min(25, n), and
\* the subject carries that number.
C8_TopTwentyFive ==
    pc # "prepare" =>
        LET out == filter_and_score(all_links)
            k == IF Len(out) < 25 THEN Len(out) ELSE 25
        IN  /\ final = [i \in 1..k |-> out[i]]
            /\ Len(body.entries) = k
            /\ \A i \in 1..k :
                  /\ body.entries[i].index = i
                  /\ body.entries[i].link = out[i].link
            /\ subject.matches = k
            /\ sendCalls = 1 => mail = [subject |-> subject, body |-> body]

C8_Witness ==
    /\ pc = "done"
    /\ Len(filter_and_score(all_links)) = 30
    /\ Len(final) = 25
    /\ body.entries[25].index = 25
    /\ subject.matches = 25

\* C9: send_email is called at most once, only after every query has been
\* issued, and every run past the configuration check that has got beyond the
\* call has made it; when no record was found the body it gets is the
\* "no matching jobs" message without entries.
C9_NotifiedOnce ==
    /\ sendCalls <= 1
    /\ sendCalls = 1 => (issued = AllRequests /\ qi = Len(queries) + 1)
    /\ (InSendEmail \/ pc \in {"done", "crashed"}) => sendCalls = 1
    /\ (sendCalls = 1 /\ all_links = <<>>) =>
          /\ mail.body.kind = "no_matches"
          /\ mail.body.entries = <<>>
    /\ (sendCalls = 1 /\ final # <<>>) => mail.body.kind = "results"

C9_Witness ==
    /\ pc = "done"
    /\ sendCalls = 1
    /\ all_links = <<>>
    /\ "Search error" \in stdout
    /\ Len(issued) = 40

\* C10: no run ends with the SMTP session opened by send_email still open.
C10_SessionReleased == Terminated => server # "open"

====
